---- MODULE Spec2Model ----
(***************************************************************************)
(* TimeCapsule: the capsules table of the PostgreSQL variant, the API      *)
(* routes /api/capsules and /api/capsules/[id] that run SQL statements     *)
(* against it, the capsule service of the same variant, and the unlock     *)
(* evaluators (checkCapsuleStatus in the service, the check-status branch  *)
(* of the API route).                                                      *)
(*                                                                         *)
(* Time is counted in milliseconds since an epoch (Date.getTime()).        *)
(* Coordinates are counted in metres of arc north / east of a reference    *)
(* point; over the few hundred metres the model uses, the haversine        *)
(* great-circle distance is the planar distance between the two points.    *)
(***************************************************************************)
EXTENDS Integers, Sequences, FiniteSets, TLC

\* ------------------------------------------------------------------ bounds
MaxTime == 2
MaxOpens == 3
MaxCreates == 2

\* ------------------------------------------------------------- value sets
Users == {"u1", "u2"}
Ids == {"id1"}
Clients == {"c1", "c2"}
Methods == {"immediate", "time", "location"}
UnlockTimes == {1}
Titles == {"t"}
Contents == {"c"}

NULL == <<>>
NotNull(v) == v # NULL
Val(v) == v[1]

Anchor == [latitude |-> 0, longitude |-> 0]
CapsuleLocs == {Anchor}
NoLocation == [none |-> TRUE]
UserLocs == {[latitude |-> 50, longitude |-> 0],
             [latitude |-> 100, longitude |-> 0],
             [latitude |-> 0, longitude |-> 101],
             [latitude |-> 300, longitude |-> 400]}

FormData == [title : Titles, content : Contents, location : CapsuleLocs,
             unlockMethod : Methods,
             unlockTime : {NULL} \cup {<<t>> : t \in UnlockTimes}]
NoData == [none |-> TRUE]

\* What a POST /api/capsules may carry in data besides the well-formed
\* FormData: an empty title or content, a point north of the pole or east of the
\* date line, a file to attach.
MetresPerDegree == 111195
Degrees(d) == d * MetresPerDegree
NorthOfPole == [latitude |-> Degrees(91), longitude |-> 0]
EastOfDateLine == [latitude |-> 0, longitude |-> Degrees(181)]
WithFile(d, file) ==
    [title |-> d.title, content |-> d.content, location |-> d.location,
     unlockMethod |-> d.unlockMethod, unlockTime |-> d.unlockTime,
     mediaFile |-> file]
PlainData ==
    CHOOSE d \in FormData : d.unlockMethod = "immediate" /\ d.unlockTime = NULL
CreateBodies ==
    {WithFile(d, NULL) : d \in FormData}
        \cup {WithFile(PlainData, <<"photo.jpg">>),
              WithFile([PlainData EXCEPT !.title = ""], NULL),
              WithFile([PlainData EXCEPT !.content = ""], NULL),
              WithFile([PlainData EXCEPT !.location = NorthOfPole], NULL),
              WithFile([PlainData EXCEPT !.location = EastOfDateLine], NULL)}

\* The ids two capsules of a list are created with.
ListIds == {"id1", "id2"}

\* inserted is the record of the INSERTs that succeeded, oldest first, kept
\* where creations are followed (ApiCreateRecorded).
\* docs and pages are the capsule documents of the Firestore / Supabase variant
\* and the capsule view pages open on them; auth is the state of authClient in
\* one browser; probe holds the arguments and results of helper functions that
\* are applied on their own; dash is the dashboard page.
VARIABLES capsules, now, reqs, openLog, inserted, docs, pages, auth, probe, dash

vars == <<capsules, now, reqs, openLog, inserted, docs, pages, auth, probe, dash>>

\* What the API routes and the PostgreSQL service never touch.
others == <<docs, pages, auth, probe, dash>>

\* ------------------------------------------------------------ the table
\* schema.sql: a row of capsules; status defaults to 'sealed', created_at to
\* NOW(), opened_at and media_urls to NULL.
NewRow(userId, creatorName, data, at) ==
    [user_id |-> userId,
     creator_name |-> creatorName,
     title |-> data.title,
     content |-> data.content,
     location |-> data.location,
     unlock_method |-> data.unlockMethod,
     unlock_time |-> IF data.unlockMethod = "time" /\ NotNull(data.unlockTime)
                     THEN data.unlockTime ELSE NULL,
     created_at |-> at,
     opened_at |-> NULL,
     status |-> "sealed",
     media_urls |-> NULL]

\* An INSERT that replaces the stored row instead of raising.
PrimaryKeyConflict_Upsert(id) == FALSE

\* id TEXT PRIMARY KEY: an INSERT of a stored id raises.
PrimaryKeyConflict(id) == id \in DOMAIN capsules

\* An UPDATE that sets the status and leaves opened_at alone.
SetOpened_StatusOnly(row, at) == [row EXCEPT !.status = "opened"]

\* An UPDATE that also stamps created_at.
SetOpened_TouchesCreatedAt(row, at) ==
    [row EXCEPT !.status = "opened", !.opened_at = <<at>>, !.created_at = at]

\* SET status = 'opened', opened_at = NOW()
SetOpened(row, at) == [row EXCEPT !.status = "opened", !.opened_at = <<at>>]

\* The UPDATE without its condition on the status.
ApiOpenWhere_AnyStatus(id, userId) ==
    /\ id \in DOMAIN capsules
    /\ capsules[id].user_id = userId

\* WHERE id = $1 AND user_id = $2 AND status = 'sealed' (API route)
ApiOpenWhere(id, userId) ==
    /\ id \in DOMAIN capsules
    /\ capsules[id].user_id = userId
    /\ capsules[id].status = "sealed"

\* WHERE id = $2 AND status = 'sealed' (service)
OpenWhere(id) ==
    /\ id \in DOMAIN capsules
    /\ capsules[id].status = "sealed"

\* The DELETE without its condition on the owner.
ApiDeleteWhere_AnyUser(id, userId) == id \in DOMAIN capsules

\* WHERE id = $1 AND user_id = $2 (API route DELETE)
ApiDeleteWhere(id, userId) ==
    /\ id \in DOMAIN capsules
    /\ capsules[id].user_id = userId

DeleteRow(id) == [i \in DOMAIN capsules \ {id} |-> capsules[i]]


\* ---------------------------------------------------- rows to Capsule objects
\* Date.prototype.toISOString and new Date(iso): an instant in milliseconds
\* goes into an ISO-8601 string with millisecond precision and comes back.
toISOString(ms) == <<"ISO", ms>>
NewDate(iso) == iso[2]

\* mapRowToCapsule, and the same mapping written inline in the API route
mapRowToCapsule(id, row) ==
    [id |-> id,
     userId |-> row.user_id,
     creatorName |-> row.creator_name,
     title |-> row.title,
     content |-> row.content,
     location |-> row.location,
     unlockMethod |-> row.unlock_method,
     unlockTime |-> IF NotNull(row.unlock_time)
                    THEN toISOString(Val(row.unlock_time)) ELSE NULL,
     createdAt |-> toISOString(row.created_at),
     openedAt |-> IF NotNull(row.opened_at)
                  THEN toISOString(Val(row.opened_at)) ELSE NULL,
     status |-> row.status,
     mediaUrls |-> IF NotNull(row.media_urls) THEN row.media_urls ELSE <<>>]

\* ------------------------------------------------------------ geolocation
\* JavaScript values as the geolocation helpers receive them: a number, an
\* object, undefined; arithmetic on anything but numbers yields NaN.
Num(n) == <<"number", n>>
Obj(o) == <<"object", o>>
Undefined == <<"undefined">>
NaN == <<"NaN">>
IsNum(v) == v[1] = "number"

ISqrt(n) == CHOOSE r \in 0..n : r * r <= n /\ (r + 1) * (r + 1) > n

\* A distance that depends on the direction of travel.
Haversine_Directed(lat1, lon1, lat2, lon2) ==
    IF lat2 > lat1 THEN lat2 - lat1 ELSE 0

\* The haversine distance in whole metres between two points given in metres
\* of arc (see the module comment).
Haversine(lat1, lon1, lat2, lon2) ==
    ISqrt((lat2 - lat1) * (lat2 - lat1) + (lon2 - lon1) * (lon2 - lon1))

\* geolocation.calculateDistance(lat1, lon1, lat2, lon2), in metres
calculateDistance(lat1, lon1, lat2, lon2) ==
    IF IsNum(lat1) /\ IsNum(lon1) /\ IsNum(lat2) /\ IsNum(lon2)
    THEN Num(Haversine(lat1[2], lon1[2], lat2[2], lon2[2]))
    ELSE NaN

\* The comparison with the threshold excluded.
isNearLocation_Exclusive(userLat, userLng, capsuleLat, capsuleLng, thresholdDistance) ==
    LET distance == calculateDistance(userLat, userLng, capsuleLat, capsuleLng)
    IN  IsNum(distance) /\ distance[2] < thresholdDistance

\* geolocation.isNearLocation(userLat, userLng, capsuleLat, capsuleLng,
\* thresholdDistance = 50): a comparison with NaN is false.
DefaultThreshold == 50
isNearLocation(userLat, userLng, capsuleLat, capsuleLng, thresholdDistance) ==
    LET distance == calculateDistance(userLat, userLng, capsuleLat, capsuleLng)
    IN  IsNum(distance) /\ distance[2] <= thresholdDistance

\* isNearLocation(location1, location2, radiusKm) of the API route: R = 6371 km
\* and a radius in kilometres; here both sides are in metres.
ApiRadiusMetres == 100
ApiIsNearLocation(location1, location2, radiusMetres) ==
    Haversine(location1.latitude, location1.longitude,
              location2.latitude, location2.longitude) <= radiusMetres

\* ---------------------------------------------------------- the evaluators
Msg(text) == [text |-> text, timeLeft |-> <<>>]

\* An evaluation that raised a TypeError instead of returning a decision.
Raised == [raised |-> TRUE]

\* The components rounded up instead of down.
getTimeLeft_RoundsUp(currentDate, targetDate) ==
    LET millisecondsLeft == targetDate - currentDate
        daysLeft == millisecondsLeft \div (1000 * 60 * 60 * 24)
        hoursLeft == ((millisecondsLeft % (1000 * 60 * 60 * 24)) + (1000 * 60 * 60) - 1)
                         \div (1000 * 60 * 60)
        minutesLeft == ((millisecondsLeft % (1000 * 60 * 60)) + (1000 * 60) - 1)
                           \div (1000 * 60)
    IN  IF daysLeft > 0
        THEN <<daysLeft, "days and", hoursLeft, "hours">>
        ELSE <<hoursLeft, "hours and", minutesLeft, "minutes">>

\* getTimeLeft(currentDate, targetDate)
getTimeLeft(currentDate, targetDate) ==
    LET millisecondsLeft == targetDate - currentDate
        daysLeft == millisecondsLeft \div (1000 * 60 * 60 * 24)
        hoursLeft == (millisecondsLeft % (1000 * 60 * 60 * 24)) \div (1000 * 60 * 60)
        minutesLeft == (millisecondsLeft % (1000 * 60 * 60)) \div (1000 * 60)
    IN  IF daysLeft > 0
        THEN <<daysLeft, "days and", hoursLeft, "hours">>
        ELSE <<hoursLeft, "hours and", minutesLeft, "minutes">>

\* The comparison written with > instead of >=.
UnlockTimeReached_Strict(nowMs, unlockTime) == nowMs > NewDate(unlockTime)

\* now >= unlockTime in the service's checkCapsuleStatus
UnlockTimeReached(nowMs, unlockTime) == nowMs >= NewDate(unlockTime)

\* The value 0.1 the service passes where a latitude is expected, in metres of
\* arc (0.1 degree).
PointOneDegree == 11119

\* The service calls isNearLocation(userLocation, capsuleLocation, 0.1): the two
\* objects arrive as userLat and userLng, 0.1 as capsuleLat, capsuleLng is
\* undefined and thresholdDistance takes its default.
ServiceIsNear(userLocation, capsuleLocation) ==
    isNearLocation(Obj(userLocation), Obj(capsuleLocation), Num(PointOneDegree),
                   Undefined, DefaultThreshold)

\* capsule.status === 'opened' in the service's checkCapsuleStatus
AlreadyOpened(capsule) == capsule.status = "opened"

\* checkCapsuleStatus(capsule, userLocation) of the service, reading the clock
checkCapsuleStatus(capsule, userLocation, nowMs) ==
    IF AlreadyOpened(capsule)
    THEN [canOpen |-> TRUE, message |-> Msg("This capsule has already been opened.")]
    ELSE IF capsule.unlockMethod = "time" /\ NotNull(capsule.unlockTime)
    THEN IF UnlockTimeReached(nowMs, capsule.unlockTime)
         THEN [canOpen |-> TRUE, message |-> Msg("This capsule is ready to be opened!")]
         ELSE [canOpen |-> FALSE,
               message |-> [text |-> "This capsule will be unlockable in",
                            timeLeft |-> getTimeLeft(nowMs, NewDate(capsule.unlockTime))]]
    ELSE IF capsule.unlockMethod = "location"
    THEN IF userLocation = NoLocation
         THEN [canOpen |-> FALSE,
               message |-> Msg("Please enable location services to open this capsule.")]
         ELSE IF ServiceIsNear(userLocation,
                               [latitude |-> capsule.location.latitude,
                                longitude |-> capsule.location.longitude])
         THEN [canOpen |-> TRUE,
               message |-> Msg("You are near the capsule location. You can open it now!")]
         ELSE [canOpen |-> FALSE,
               message |-> Msg("You need to be closer to the capsule location to open it.")]
    ELSE [canOpen |-> TRUE, message |-> Msg("This capsule is ready to be opened!")]

\* The comparison written as an equality of the two instants.
ApiUnlockTimeReached_Equal(nowMs, unlockTime) == nowMs = NewDate(unlockTime)

\* now >= unlockTime in the API route
ApiUnlockTimeReached(nowMs, unlockTime) == nowMs >= NewDate(unlockTime)

\* The status compared with a value no capsule has.
ApiAlreadyOpened_WrongValue(capsule) == capsule.status = "open"

\* capsule.status === 'opened' in the API route
ApiAlreadyOpened(capsule) == capsule.status = "opened"

\* The branch taken without asking whether a position was sent.
ApiLocationBranch_AnyPosition(capsule, userLocation) ==
    capsule.unlockMethod = "location"

\* capsule.unlockMethod === 'location' && userLocation in the API route
ApiLocationBranch(capsule, userLocation) ==
    capsule.unlockMethod = "location" /\ userLocation # NoLocation

\* statusResponse of the check-status branch of the API route; location1.latitude
\* in isNearLocation raises a TypeError when location1 is undefined.
ApiStatusResponse(capsule, userLocation, nowMs) ==
    IF ApiAlreadyOpened(capsule)
    THEN [canOpen |-> TRUE, message |-> Msg("This capsule has already been opened.")]
    ELSE IF capsule.unlockMethod = "time" /\ NotNull(capsule.unlockTime)
    THEN IF ApiUnlockTimeReached(nowMs, capsule.unlockTime)
         THEN [canOpen |-> TRUE, message |-> Msg("This capsule is ready to be opened!")]
         ELSE [canOpen |-> FALSE,
               message |-> [text |-> "This capsule will be unlockable in",
                            timeLeft |-> getTimeLeft(nowMs, NewDate(capsule.unlockTime))]]
    ELSE IF ApiLocationBranch(capsule, userLocation)
    THEN IF userLocation = NoLocation
         THEN Raised
         ELSE IF ApiIsNearLocation(userLocation,
                              [latitude |-> capsule.location.latitude,
                               longitude |-> capsule.location.longitude],
                              ApiRadiusMetres)
         THEN [canOpen |-> TRUE,
               message |-> Msg("You are near the capsule location. You can open it now!")]
         ELSE [canOpen |-> FALSE,
               message |-> Msg("You need to be closer to the capsule location to open it.")]
    ELSE IF capsule.unlockMethod = "immediate"
    THEN [canOpen |-> TRUE, message |-> Msg("This capsule is ready to be opened!")]
    ELSE [canOpen |-> FALSE, message |-> Msg("")]

\* ------------------------------------------------------------- requests
NoRes == [code |-> "none"]
Idle == [pc |-> "idle", op |-> "none", id |-> "none", userId |-> "none",
         data |-> NoData, loc |-> NoLocation, res |-> NoRes]

Request(op, id, userId, data, loc) ==
    [pc |-> "pending", op |-> op, id |-> id, userId |-> userId,
     data |-> data, loc |-> loc, res |-> NoRes]

\* res.status(code).json({ error }); the catch block answers 500.
Error(code, error) == [code |-> code, error |-> error]
InternalServerError == Error("500", "Internal server error")

\* !id || typeof id !== 'string': the id of a request that has none ('' is
\* falsy).
InvalidId == ""
BadRequest == Error("400", "Missing or invalid capsule ID")

\* A SELECT that found no row answered like a failure of the database.
CapsuleNotFound_AsServerError == InternalServerError

\* result.rows.length === 0 after SELECT * FROM capsules WHERE id = $1
CapsuleNotFound == Error("404", "Capsule not found")

\* The answer of PATCH open when its UPDATE returned no row.
NotFoundOrAlreadyOpened == Error("404", "Capsule not found or already opened")

\* The check-status branch runs one SELECT and no other statement.
TableAfterCheckStatus_OpensWhenEligible(id, canOpen) ==
    IF canOpen /\ capsules[id].status = "sealed"
    THEN [capsules EXCEPT ![id] = SetOpened(@, now)]
    ELSE capsules

\* The table after the check-status branch has run: it runs one SELECT and no
\* other statement.
TableAfterCheckStatus(id, canOpen) == capsules

\* The response reaches the client, which keeps what it asked for and the answer.
Respond(c, res) ==
    reqs' = [reqs EXCEPT ![c].pc = "done", ![c].data = NoData,
                         ![c].loc = NoLocation, ![c].res = res]

\* The answer of an evaluator, with the Capsule object and the clock reading
\* it was computed from.
RespondCheck(c, code, statusResponse, capsule) ==
    reqs' = [reqs EXCEPT ![c].pc = "done",
                         ![c].res = [code |-> code,
                                     canOpen |-> statusResponse.canOpen,
                                     message |-> statusResponse.message,
                                     capsule |-> capsule,
                                     at |-> now]]

Pending(c, op) == reqs[c].pc = "pending" /\ reqs[c].op = op

OpenOps == {"open", "svcOpen"}

\* open requests in flight for id, and open outcomes recorded for its row
PendingOpens(id) ==
    Cardinality({c \in Clients : reqs[c].pc = "pending" /\ reqs[c].op \in OpenOps
                                 /\ reqs[c].id = id})

\* What the callers entitled to open the row stored under id (its owner through
\* the API, any caller of the service) were told since the row was inserted:
\* how many were told the transition occurred, how many that it did not, and
\* the opened_at the row had when the first transition was reported.
NoOpens == [ok |-> 0, refused |-> 0, at |-> NULL]
Logged(id) == openLog[id].ok + openLog[id].refused
LogOpen(id, entitled, ok) ==
    IF ~entitled THEN openLog
    ELSE [openLog EXCEPT ![id] =
            [ok |-> @.ok + (IF ok THEN 1 ELSE 0),
             refused |-> @.refused + (IF ok THEN 0 ELSE 1),
             at |-> IF ok /\ @.ok = 0 THEN capsules'[id].opened_at ELSE @.at]]

\* The parts of the program that a specification leaves alone stay as they are
\* before anything has run: no document and no page, nobody signed in, no
\* helper applied, no dashboard mounted.
NoPage == [pc |-> "none"]
NoAuth == [pc |-> "none"]
NoProbe == [pc |-> "none"]
NoDashboard == [pc |-> "none"]

\* The dashboard after its first render: no capsules yet, loading.
LoadingDashboard ==
    [pc |-> "loading", capsules |-> <<>>, unlocked |-> {}, locked |-> {},
     unlockable |-> {}]
FsUnused == docs = <<>> /\ pages = [c \in Clients |-> NoPage]
AuthUnused == auth = NoAuth
ProbeUnused == probe = NoProbe
DashUnused == dash = NoDashboard

Init ==
    /\ capsules = <<>>
    /\ now = 0
    /\ reqs = [c \in Clients |-> Idle]
    /\ openLog = [i \in Ids |-> NoOpens]
    /\ inserted = <<>>
    /\ FsUnused /\ AuthUnused /\ ProbeUnused /\ DashUnused

\* The wall clock read by NOW() and new Date() advances.
Tick ==
    /\ now < MaxTime
    /\ now' = now + 1
    /\ UNCHANGED <<capsules, reqs, openLog, inserted, others>>

\* A client issues a request; the Authorization header carries userId, the
\* body of a POST the id the client chose and the data.
SendCreateOf(c, ids, bodies) ==
    /\ reqs[c].pc # "pending"
    /\ \E id \in ids, u \in Users, d \in bodies :
          reqs' = [reqs EXCEPT ![c] = Request("create", id, u, d, NoLocation)]
    /\ UNCHANGED <<capsules, now, openLog, inserted, others>>

SendCreate(c) == SendCreateOf(c, Ids, FormData)

SendDeleteOf(c, ids) ==
    /\ reqs[c].pc # "pending"
    /\ \E id \in ids, u \in Users :
          reqs' = [reqs EXCEPT ![c] = Request("delete", id, u, NoData, NoLocation)]
    /\ UNCHANGED <<capsules, now, openLog, inserted, others>>

SendDelete(c) == SendDeleteOf(c, Ids)

SendOpen(c) ==
    /\ reqs[c].pc # "pending"
    /\ \E id \in Ids, u \in Users :
          /\ PendingOpens(id) + Logged(id) < MaxOpens
          /\ reqs' = [reqs EXCEPT ![c] = Request("open", id, u, NoData, NoLocation)]
    /\ UNCHANGED <<capsules, now, openLog, inserted, others>>

\* POST /api/capsules: the INSERT and the answer
InsertCapsule(c) ==
    LET r == reqs[c] IN
        IF PrimaryKeyConflict(r.id)
        THEN /\ Respond(c, InternalServerError)
             /\ UNCHANGED <<capsules, openLog>>
        ELSE /\ capsules' = (r.id :> NewRow(r.userId, NULL, r.data, now)) @@ capsules
             /\ openLog' = [openLog EXCEPT ![r.id] = NoOpens]
             /\ Respond(c, [code |-> "201", id |-> r.id])

\* POST /api/capsules
ApiCreate(c) ==
    /\ Pending(c, "create")
    /\ InsertCapsule(c)
    /\ UNCHANGED <<now, inserted, others>>

\* POST /api/capsules, with a record kept of every INSERT that succeeded: the
\* id, the caller, the data of the request and the time.
Creation(r, at) == [id |-> r.id, userId |-> r.userId, data |-> r.data, at |-> at]
CreatesLeft ==
    Len(inserted) + Cardinality({c \in Clients : Pending(c, "create")}) < MaxCreates
ApiCreateRecorded(c) ==
    /\ Pending(c, "create")
    /\ InsertCapsule(c)
    /\ inserted' = IF PrimaryKeyConflict(reqs[c].id)
                   THEN inserted
                   ELSE Append(inserted, Creation(reqs[c], now))
    /\ UNCHANGED <<now, others>>

\* DELETE /api/capsules/[id]
ApiDelete(c) ==
    /\ Pending(c, "delete")
    /\ LET r == reqs[c] IN
          IF r.id = InvalidId
          THEN /\ UNCHANGED capsules
               /\ Respond(c, BadRequest)
          ELSE IF ApiDeleteWhere(r.id, r.userId)
          THEN /\ capsules' = DeleteRow(r.id)
               /\ Respond(c, [code |-> "200"])
          ELSE /\ UNCHANGED capsules
               /\ Respond(c, Error("404", "Capsule not found or permission denied"))
    /\ UNCHANGED <<now, openLog, inserted, others>>

\* PATCH /api/capsules/[id] with action 'open'
ApiOpen(c) ==
    /\ Pending(c, "open")
    /\ LET r == reqs[c] IN
          IF r.id = InvalidId
          THEN /\ UNCHANGED <<capsules, openLog>>
               /\ Respond(c, BadRequest)
          ELSE IF ApiOpenWhere(r.id, r.userId)
          THEN /\ capsules' = [capsules EXCEPT ![r.id] = SetOpened(@, now)]
               /\ openLog' = LogOpen(r.id, TRUE, TRUE)
               /\ Respond(c, [code |-> "200"])
          ELSE /\ UNCHANGED capsules
               /\ openLog' = LogOpen(r.id, r.id \in DOMAIN capsules
                                              /\ capsules[r.id].user_id = r.userId,
                                        FALSE)
               /\ Respond(c, NotFoundOrAlreadyOpened)
    /\ UNCHANGED <<now, inserted, others>>

\* openCapsule(capsuleId) of the service is called
SendSvcOpen(c) ==
    /\ reqs[c].pc # "pending"
    /\ \E id \in Ids :
          /\ PendingOpens(id) + Logged(id) < MaxOpens
          /\ reqs' = [reqs EXCEPT ![c] = Request("svcOpen", id, "none", NoData, NoLocation)]
    /\ UNCHANGED <<capsules, now, openLog, inserted, others>>

\* openCapsule(capsuleId) of the service: result.rows.length > 0
SvcOpenCapsule(c) ==
    /\ Pending(c, "svcOpen")
    /\ LET r == reqs[c] IN
          IF OpenWhere(r.id)
          THEN /\ capsules' = [capsules EXCEPT ![r.id] = SetOpened(@, now)]
               /\ openLog' = LogOpen(r.id, TRUE, TRUE)
               /\ Respond(c, [code |-> "true"])
          ELSE /\ UNCHANGED capsules
               /\ openLog' = LogOpen(r.id, r.id \in DOMAIN capsules, FALSE)
               /\ Respond(c, [code |-> "false"])
    /\ UNCHANGED <<now, inserted, others>>

\* deleteCapsule(capsuleId) of the service is called
SendSvcDelete(c) ==
    /\ reqs[c].pc # "pending"
    /\ \E id \in Ids :
          reqs' = [reqs EXCEPT ![c] = Request("svcDelete", id, "none", NoData, NoLocation)]
    /\ UNCHANGED <<capsules, now, openLog, inserted, others>>

\* deleteCapsule(capsuleId) of the service: DELETE ... WHERE id = $1
SvcDeleteCapsule(c) ==
    /\ Pending(c, "svcDelete")
    /\ LET r == reqs[c] IN
          IF r.id \in DOMAIN capsules
          THEN /\ capsules' = DeleteRow(r.id)
               /\ Respond(c, [code |-> "true"])
          ELSE /\ UNCHANGED capsules
               /\ Respond(c, [code |-> "false"])
    /\ UNCHANGED <<now, openLog, inserted, others>>

\* POST /api/capsules/[id] with action 'check-status' is sent, with or without
\* a userLocation in the body
SendCheck(c) ==
    /\ reqs[c].pc # "pending"
    /\ \E id \in Ids, u \in Users, l \in UserLocs \cup {NoLocation} :
          reqs' = [reqs EXCEPT ![c] = Request("check", id, u, NoData, l)]
    /\ UNCHANGED <<capsules, now, openLog, inserted, others>>

\* Readable by anyone once the capsule is opened.
NotOwner_UnlessOpened(row, userId) == row.user_id # userId /\ row.status # "opened"

\* row.user_id !== userId in the GET and the check-status branch
NotOwner(row, userId) == row.user_id # userId

\* POST /api/capsules/[id] with action 'check-status'
ApiCheckStatus(c) ==
    /\ Pending(c, "check")
    /\ LET r == reqs[c] IN
          IF r.id = InvalidId
          THEN /\ Respond(c, BadRequest)
               /\ UNCHANGED capsules
          ELSE IF r.id \notin DOMAIN capsules
          THEN /\ Respond(c, CapsuleNotFound)
               /\ UNCHANGED capsules
          ELSE IF NotOwner(capsules[r.id], r.userId)
          THEN /\ Respond(c, Error("403", "Forbidden"))
               /\ UNCHANGED capsules
          ELSE LET capsule == mapRowToCapsule(r.id, capsules[r.id])
                   statusResponse == ApiStatusResponse(capsule, r.loc, now)
               IN  IF statusResponse = Raised
                   THEN /\ Respond(c, InternalServerError)
                        /\ UNCHANGED capsules
                   ELSE /\ RespondCheck(c, "200", statusResponse, capsule)
                        /\ capsules' = TableAfterCheckStatus(r.id, statusResponse.canOpen)
    /\ UNCHANGED <<now, openLog, inserted, others>>

\* checkCapsuleStatus(capsule, userLocation) of the service is called for the
\* capsule that getCapsuleById(id) returns
SendSvcCheck(c) ==
    /\ reqs[c].pc # "pending"
    /\ \E id \in Ids, l \in UserLocs \cup {NoLocation} :
          reqs' = [reqs EXCEPT ![c] = Request("svcCheck", id, "none", NoData, l)]
    /\ UNCHANGED <<capsules, now, openLog, inserted, others>>

SvcCheckCapsuleStatus(c) ==
    /\ Pending(c, "svcCheck")
    /\ LET r == reqs[c] IN
          IF r.id \notin DOMAIN capsules
          THEN Respond(c, [code |-> "null"])
          ELSE LET capsule == mapRowToCapsule(r.id, capsules[r.id])
               IN  RespondCheck(c, "value", checkCapsuleStatus(capsule, r.loc, now),
                                capsule)
    /\ UNCHANGED <<capsules, now, openLog, inserted, others>>

\* GET /api/capsules/[id] is sent
SendGet(c) ==
    /\ reqs[c].pc # "pending"
    /\ \E id \in Ids, u \in Users :
          reqs' = [reqs EXCEPT ![c] = Request("get", id, u, NoData, NoLocation)]
    /\ UNCHANGED <<capsules, now, openLog, inserted, others>>

\* GET /api/capsules/[id]
ApiGet(c) ==
    /\ Pending(c, "get")
    /\ LET r == reqs[c] IN
          IF r.id = InvalidId
          THEN Respond(c, BadRequest)
          ELSE IF r.id \notin DOMAIN capsules
          THEN Respond(c, CapsuleNotFound)
          ELSE IF NotOwner(capsules[r.id], r.userId)
          THEN Respond(c, Error("403", "Forbidden"))
          ELSE Respond(c, [code |-> "200",
                           capsule |-> mapRowToCapsule(r.id, capsules[r.id])])
    /\ UNCHANGED <<capsules, now, openLog, inserted, others>>

\* getCapsuleById(capsuleId) of the service is called
SendSvcGet(c) ==
    /\ reqs[c].pc # "pending"
    /\ \E id \in Ids :
          reqs' = [reqs EXCEPT ![c] = Request("svcGet", id, "none", NoData, NoLocation)]
    /\ UNCHANGED <<capsules, now, openLog, inserted, others>>

\* getCapsuleById(capsuleId) of the service: null when no row has the id
SvcGetCapsuleById(c) ==
    /\ Pending(c, "svcGet")
    /\ LET r == reqs[c] IN
          IF r.id \notin DOMAIN capsules
          THEN Respond(c, [code |-> "null"])
          ELSE Respond(c, [code |-> "value",
                           capsule |-> mapRowToCapsule(r.id, capsules[r.id])])
    /\ UNCHANGED <<capsules, now, openLog, inserted, others>>

\* A request to /api/capsules/[id] arrives whose id is not a string.
SendInvalidId(c) ==
    /\ reqs[c].pc # "pending"
    /\ \E op \in {"get", "delete", "open"}, u \in Users :
          reqs' = [reqs EXCEPT ![c] = Request(op, InvalidId, u, NoData, NoLocation)]
    /\ UNCHANGED <<capsules, now, openLog, inserted, others>>

\* The database cannot be reached and query() rejects: the catch block of the
\* API route answers 500, the service logs the error and rethrows it. A request
\* without a valid id is answered before any query is made.
ServiceOps == {"svcGet", "svcOpen", "svcDelete", "svcCheck"}
QueryRejects(c) ==
    /\ reqs[c].pc = "pending"
    /\ reqs[c].id # InvalidId
    /\ Respond(c, IF reqs[c].op \in ServiceOps
                  THEN [code |-> "throws"] ELSE InternalServerError)
    /\ UNCHANGED <<capsules, now, openLog, inserted, others>>

Next ==
    \/ Tick
    \/ \E c \in Clients : SendCreate(c)
    \/ \E c \in Clients : SendDelete(c)
    \/ \E c \in Clients : SendOpen(c)
    \/ \E c \in Clients : SendSvcOpen(c)
    \/ \E c \in Clients : ApiCreate(c)
    \/ \E c \in Clients : ApiDelete(c)
    \/ \E c \in Clients : ApiOpen(c)
    \/ \E c \in Clients : SvcOpenCapsule(c)
    \/ \E c \in Clients : SendSvcDelete(c)
    \/ \E c \in Clients : SvcDeleteCapsule(c)

Spec == Init /\ [][Next]_vars

\* ------------------------------------------------- the evaluators at work
\* One sealed capsule is stored, as one POST /api/capsules of user u1 at time 0
\* leaves it;
\* it is evaluated and opened while the clock advances.
InitEval ==
    /\ \E id \in Ids, d \in FormData :
          capsules = (id :> NewRow("u1", NULL, d, 0))
    /\ now = 0
    /\ reqs = [c \in Clients |-> Idle]
    /\ openLog = [i \in Ids |-> NoOpens]
    /\ inserted = <<>>
    /\ FsUnused /\ AuthUnused /\ ProbeUnused /\ DashUnused

NextEval ==
    \/ Tick
    \/ \E c \in Clients : SendCheck(c)
    \/ \E c \in Clients : SendSvcCheck(c)
    \/ \E c \in Clients : SendOpen(c)
    \/ \E c \in Clients : ApiCheckStatus(c)
    \/ \E c \in Clients : SvcCheckCapsuleStatus(c)
    \/ \E c \in Clients : ApiOpen(c)

SpecEval == InitEval /\ [][NextEval]_vars

\* GET /api/capsules is sent
SendList(c) ==
    /\ reqs[c].pc # "pending"
    /\ \E u \in Users :
          reqs' = [reqs EXCEPT ![c] = Request("list", "none", u, NoData, NoLocation)]
    /\ UNCHANGED <<capsules, now, openLog, inserted, others>>

\* SELECT ... WHERE user_id = $1 ORDER BY created_at DESC: the ids of the rows
\* of userId in an order the statement allows. Rows of equal created_at come
\* in whatever order the database produces them: ORDER BY names no further
\* key.
OrderedByCreatedAtDesc(userId) ==
    LET owned == {id \in DOMAIN capsules : capsules[id].user_id = userId}
        n == Cardinality(owned)
    IN  {rows \in [1..n -> owned] :
            /\ \A i, j \in 1..n : i # j => rows[i] # rows[j]
            /\ \A i, j \in 1..n :
                  i < j => capsules[rows[i]].created_at >= capsules[rows[j]].created_at}

\* GET /api/capsules: result.rows.map(row => ({...}))
ApiList(c) ==
    /\ Pending(c, "list")
    /\ \E rows \in OrderedByCreatedAtDesc(reqs[c].userId) :
          Respond(c, [code |-> "200",
                      capsules |-> [i \in DOMAIN rows |->
                                       mapRowToCapsule(rows[i], capsules[rows[i]])]])
    /\ UNCHANGED <<capsules, now, openLog, inserted, others>>

\* ------------------------------------------------------ listing by user
\* Two users create capsules under two ids at the same or at different times,
\* delete them and list their own.
InitList ==
    /\ capsules = <<>>
    /\ now = 0
    /\ reqs = [c \in Clients |-> Idle]
    /\ openLog = [i \in ListIds |-> NoOpens]
    /\ inserted = <<>>
    /\ FsUnused /\ AuthUnused /\ ProbeUnused /\ DashUnused

SendCreateListed(c) ==
    /\ CreatesLeft
    /\ SendCreateOf(c, ListIds, {PlainData})

SendDeleteListed(c) == SendDeleteOf(c, ListIds)

NextList ==
    \/ Tick
    \/ \E c \in Clients : SendCreateListed(c)
    \/ \E c \in Clients : ApiCreateRecorded(c)
    \/ \E c \in Clients : SendDeleteListed(c)
    \/ \E c \in Clients : ApiDelete(c)
    \/ \E c \in Clients : SendList(c)
    \/ \E c \in Clients : ApiList(c)

SpecList == InitList /\ [][NextList]_vars

\* ------------------------------------------------ looking up by id
\* Capsules are created, read, opened and deleted by id through the API route
\* and through the service, while the database may become unreachable.
NextLookup ==
    \/ \E c \in Clients : SendCreate(c)
    \/ \E c \in Clients : ApiCreate(c)
    \/ \E c \in Clients : SendGet(c)
    \/ \E c \in Clients : ApiGet(c)
    \/ \E c \in Clients : SendSvcGet(c)
    \/ \E c \in Clients : SvcGetCapsuleById(c)
    \/ \E c \in Clients : SendOpen(c)
    \/ \E c \in Clients : ApiOpen(c)
    \/ \E c \in Clients : SendSvcOpen(c)
    \/ \E c \in Clients : SvcOpenCapsule(c)
    \/ \E c \in Clients : SendDelete(c)
    \/ \E c \in Clients : ApiDelete(c)
    \/ \E c \in Clients : SendSvcDelete(c)
    \/ \E c \in Clients : SvcDeleteCapsule(c)
    \/ \E c \in Clients : SendInvalidId(c)
    \/ \E c \in Clients : QueryRejects(c)

SpecLookup == Init /\ [][NextLookup]_vars

\* ------------------------------------------------ creating and reading back
\* Clients post capsules with any of CreateBodies under an id of their choice,
\* read them back and delete them.
SendCreateBody(c) ==
    /\ CreatesLeft
    /\ SendCreateOf(c, Ids, CreateBodies)

NextCreate ==
    \/ \E c \in Clients : SendCreateBody(c)
    \/ \E c \in Clients : ApiCreateRecorded(c)
    \/ \E c \in Clients : SendGet(c)
    \/ \E c \in Clients : ApiGet(c)
    \/ \E c \in Clients : SendDelete(c)
    \/ \E c \in Clients : ApiDelete(c)

SpecCreate == Init /\ [][NextCreate]_vars

\* ------------------------------------- the unlock-date-plus-location variant
\* The Firestore service and the Supabase service keep a capsule with an
\* unlockDate and a flag isOpened; the capsule view page reads it, asks the
\* browser for a position and marks the capsule opened.
FsIds == {"d1"}
UnlockDates == {1}

\* Where the browser may say the user is: 50 m and 51 m from the capsule.
Positions == {[latitude |-> 30, longitude |-> 40],
              [latitude |-> 0, longitude |-> 51]}

\* createCapsule: the document (Firestore) or row (Supabase) it adds
FsDocument(userId, unlockDate, isPublic, at) ==
    [userId |-> userId,
     location |-> Anchor,
     createdAt |-> at,
     unlockDate |-> unlockDate,
     isPublic |-> isPublic,
     isOpened |-> FALSE]

\* getCapsuleById: data.unlockDate?.toMillis() || Date.now() takes the clock
\* when the stored instant is 0.
FsGetCapsuleById(id, nowMs) ==
    IF id \notin DOMAIN docs THEN NULL
    ELSE LET data == docs[id] IN
         <<[id |-> id,
            userId |-> data.userId,
            location |-> data.location,
            createdAt |-> IF data.createdAt # 0 THEN data.createdAt ELSE nowMs,
            unlockDate |-> IF data.unlockDate # 0 THEN data.unlockDate ELSE nowMs,
            isPublic |-> data.isPublic,
            isOpened |-> data.isOpened]>>

\* The evaluation without its test of the unlock date.
FsCheckCapsuleStatus_IgnoresDate(capsule, userLat, userLng, nowMs) ==
    IF capsule.isOpened THEN "unlocked"
    ELSE IF isNearLocation(Num(userLat), Num(userLng),
                           Num(capsule.location.latitude),
                           Num(capsule.location.longitude), DefaultThreshold)
    THEN "unlockable" ELSE "locked"

\* checkCapsuleStatus(capsule, userLat, userLng) of the Firestore and of the
\* Supabase service, reading the clock
FsCheckCapsuleStatus(capsule, userLat, userLng, nowMs) ==
    LET isTimeUnlocked == nowMs >= capsule.unlockDate
        isLocationMatched ==
            isNearLocation(Num(userLat), Num(userLng),
                           Num(capsule.location.latitude),
                           Num(capsule.location.longitude), DefaultThreshold)
    IN  IF capsule.isOpened THEN "unlocked"
        ELSE IF ~isTimeUnlocked THEN "locked"
        ELSE IF isLocationMatched THEN "unlockable" ELSE "locked"

\* openCapsule(capsuleId): updateDoc(capsuleRef, {isOpened: true}), and
\* update({is_opened: true}).eq('id', capsuleId)
FsOpenCapsule(id) == [docs EXCEPT ![id].isOpened = TRUE]

\* The state of a CapsuleView page after mounting: useState initial values;
\* checkedAt is the clock reading of its last evaluation, opens counts the
\* openCapsule calls of the page that resolved.
MountedPage(user) ==
    [pc |-> "fetching", user |-> user, capsule |-> NULL, error |-> NULL,
     capsuleStatus |-> "locked", userLocation |-> NoLocation,
     checkedAt |-> NULL, opens |-> 0]

\* A signed-in user navigates to /capsule/[id].
PageMount(c) ==
    /\ pages[c].pc = "none"
    /\ \E u \in Users : pages' = [pages EXCEPT ![c] = MountedPage(u)]
    /\ UNCHANGED <<capsules, now, reqs, openLog, inserted, docs, auth, probe, dash>>

\* fetchCapsule of the page's effect
PageFetchCapsule(c) ==
    /\ pages[c].pc = "fetching"
    /\ \E id \in FsIds :
          LET capsuleData == FsGetCapsuleById(id, now) IN
          pages' = [pages EXCEPT ![c] =
              IF capsuleData = NULL
              THEN [@ EXCEPT !.pc = "ready", !.error = <<"Capsule not found.">>]
              ELSE IF Val(capsuleData).userId # @.user /\ ~Val(capsuleData).isPublic
              THEN [@ EXCEPT !.pc = "ready",
                             !.error = <<"You do not have permission to view this capsule.">>]
              ELSE [@ EXCEPT !.pc = "ready", !.capsule = capsuleData,
                             !.capsuleStatus =
                                 IF Val(capsuleData).isOpened THEN "unlocked" ELSE @]]
    /\ UNCHANGED <<capsules, now, reqs, openLog, inserted, docs, auth, probe, dash>>

\* checkLocation of the page, from the moment getCurrentPosition() settles
\* until it awaits openCapsule or returns
PageCheckLocation(c) ==
    /\ pages[c].pc = "ready"
    /\ NotNull(pages[c].capsule)
    /\ \/ pages' = [pages EXCEPT ![c].error = <<"Location check failed">>]
       \/ \E position \in Positions :
             LET capsule == Val(pages[c].capsule)
                 status == FsCheckCapsuleStatus(capsule, position.latitude,
                                                position.longitude, now)
             IN  pages' = [pages EXCEPT
                     ![c].userLocation = position,
                     ![c].checkedAt = <<now>>,
                     ![c].capsuleStatus = status,
                     ![c].pc = IF status = "unlockable" /\ ~capsule.isOpened
                               THEN "opening" ELSE "ready"]
    /\ UNCHANGED <<capsules, now, reqs, openLog, inserted, docs, auth, probe, dash>>

\* await openCapsule(capsule.id) resolves and the page shows the capsule
PageOpenCapsule(c) ==
    /\ pages[c].pc = "opening"
    /\ docs' = FsOpenCapsule(Val(pages[c].capsule).id)
    /\ pages' = [pages EXCEPT
            ![c].capsule = <<[Val(@) EXCEPT !.isOpened = TRUE]>>,
            ![c].capsuleStatus = "unlocked",
            ![c].opens = @ + 1,
            ![c].pc = "ready"]
    /\ UNCHANGED <<capsules, now, reqs, openLog, inserted, auth, probe, dash>>

PgUnused ==
    /\ capsules = <<>>
    /\ reqs = [c \in Clients |-> Idle]
    /\ openLog = [i \in Ids |-> NoOpens]
    /\ inserted = <<>>

\* One capsule of u1 is stored, as createCapsule leaves it at time 0.
InitFs ==
    /\ \E id \in FsIds, unlockDate \in UnlockDates, isPublic \in BOOLEAN :
          docs = (id :> FsDocument("u1", unlockDate, isPublic, 0))
    /\ pages = [c \in Clients |-> NoPage]
    /\ now = 0
    /\ PgUnused /\ AuthUnused /\ ProbeUnused /\ DashUnused

NextFs ==
    \/ Tick
    \/ \E c \in Clients : PageMount(c)
    \/ \E c \in Clients : PageFetchCapsule(c)
    \/ \E c \in Clients : PageCheckLocation(c)
    \/ \E c \in Clients : PageOpenCapsule(c)

SpecFs == InitFs /\ [][NextFs]_vars

\* ------------------------------------------- the proximity helpers on their own
\* Two points and a radius handed to the distance and proximity helpers.  The
\* points lie 0, 50, 51, 99 and 100 metres from the first one.
GeoPoints == {[latitude |-> 0, longitude |-> 0],
              [latitude |-> 30, longitude |-> 40],
              [latitude |-> 0, longitude |-> 51],
              [latitude |-> 99, longitude |-> 0],
              [latitude |-> 60, longitude |-> 80]}
Radii == {0, 50, 100}

GeoProbe(a, b, r) ==
    [pc |-> "geo", a |-> a, b |-> b, r |-> r,
     distance |-> NULL, reverse |-> NULL, self |-> NULL,
     near |-> NULL, apiNear |-> NULL,
     firestore |-> NULL, apiHandler |-> NULL, service |-> NULL]

\* calculateDistance(a, b), calculateDistance(b, a) and calculateDistance(a, a)
CallCalculateDistance ==
    /\ probe.pc = "geo"
    /\ probe.distance = NULL
    /\ LET a == probe.a
           b == probe.b
       IN  probe' = [probe EXCEPT
               !.distance = <<calculateDistance(Num(a.latitude), Num(a.longitude),
                                                Num(b.latitude), Num(b.longitude))>>,
               !.reverse = <<calculateDistance(Num(b.latitude), Num(b.longitude),
                                               Num(a.latitude), Num(a.longitude))>>,
               !.self = <<calculateDistance(Num(a.latitude), Num(a.longitude),
                                            Num(a.latitude), Num(a.longitude))>>]
    /\ UNCHANGED <<capsules, now, reqs, openLog, inserted, docs, pages, auth, dash>>

\* geolocation.isNearLocation with the radius given, and with its default as
\* the Firestore and the Supabase checkCapsuleStatus call it (a the user's
\* position, b the capsule's location).
CallIsNearLocation ==
    /\ probe.pc = "geo"
    /\ probe.near = NULL
    /\ LET a == probe.a
           b == probe.b
       IN  probe' = [probe EXCEPT
               !.near = <<isNearLocation(Num(a.latitude), Num(a.longitude),
                                         Num(b.latitude), Num(b.longitude), probe.r)>>,
               !.firestore = <<isNearLocation(Num(a.latitude), Num(a.longitude),
                                              Num(b.latitude), Num(b.longitude),
                                              DefaultThreshold)>>]
    /\ UNCHANGED <<capsules, now, reqs, openLog, inserted, docs, pages, auth, dash>>

\* isNearLocation of the API route with the radius given, and with the 0.1 km
\* the check-status branch passes.
CallApiIsNearLocation ==
    /\ probe.pc = "geo"
    /\ probe.apiNear = NULL
    /\ probe' = [probe EXCEPT
           !.apiNear = <<ApiIsNearLocation(probe.a, probe.b, probe.r)>>,
           !.apiHandler = <<ApiIsNearLocation(probe.a, probe.b, ApiRadiusMetres)>>]
    /\ UNCHANGED <<capsules, now, reqs, openLog, inserted, docs, pages, auth, dash>>

\* The call checkCapsuleStatus of the PostgreSQL service makes.
CallServiceIsNear ==
    /\ probe.pc = "geo"
    /\ probe.service = NULL
    /\ probe' = [probe EXCEPT !.service = <<ServiceIsNear(probe.a, probe.b)>>]
    /\ UNCHANGED <<capsules, now, reqs, openLog, inserted, docs, pages, auth, dash>>

InitGeo ==
    /\ PgUnused
    /\ now = 0
    /\ FsUnused /\ AuthUnused /\ DashUnused
    /\ \E a \in GeoPoints, b \in GeoPoints, r \in Radii : probe = GeoProbe(a, b, r)

NextGeo ==
    \/ CallCalculateDistance
    \/ CallIsNearLocation
    \/ CallApiIsNearLocation
    \/ CallServiceIsNear

SpecGeo == InitGeo /\ [][NextGeo]_vars

\* --------------------------------------------- the remaining time on its own
\* A sealed time capsule is evaluated some days, hours, minutes and
\* milliseconds before its unlockTime.
MinuteMs == 1000 * 60
HourMs == 1000 * 60 * 60
DayMs == 1000 * 60 * 60 * 24
TargetTime == 3 * DayMs
TimesLeft ==
    {d * DayMs + h * HourMs + m * MinuteMs + ms :
        d \in {0, 1, 2}, h \in {0, 1, 23}, m \in {0, 1, 59}, ms \in {0, 1, 59999}} \ {0}

TimeProbe(capsule, userLocation, at) ==
    [pc |-> "time", capsule |-> capsule, userLocation |-> userLocation, at |-> at,
     api |-> NULL, service |-> NULL]

\* The check-status branch of the API route evaluates the capsule.
CallApiStatusResponse ==
    /\ probe.pc = "time"
    /\ probe.api = NULL
    /\ probe' = [probe EXCEPT
           !.api = <<ApiStatusResponse(probe.capsule, probe.userLocation, probe.at)>>]
    /\ UNCHANGED <<capsules, now, reqs, openLog, inserted, docs, pages, auth, dash>>

\* The service's checkCapsuleStatus evaluates the capsule.
CallCheckCapsuleStatus ==
    /\ probe.pc = "time"
    /\ probe.service = NULL
    /\ probe' = [probe EXCEPT
           !.service = <<checkCapsuleStatus(probe.capsule, probe.userLocation,
                                          probe.at)>>]
    /\ UNCHANGED <<capsules, now, reqs, openLog, inserted, docs, pages, auth, dash>>

InitTimeLeft ==
    /\ PgUnused
    /\ now = 0
    /\ FsUnused /\ AuthUnused /\ DashUnused
    /\ \E id \in Ids, d \in FormData, left \in TimesLeft :
          /\ d.unlockMethod = "time"
          /\ probe = TimeProbe(
                 mapRowToCapsule(id, [NewRow("u1", NULL, d, 0)
                                         EXCEPT !.unlock_time = <<TargetTime>>]),
                 NoLocation, TargetTime - left)

NextTimeLeft ==
    \/ CallApiStatusResponse
    \/ CallCheckCapsuleStatus

SpecTimeLeft == InitTimeLeft /\ [][NextTimeLeft]_vars

\* ------------------------------------------ the two evaluators side by side
\* Every capsule snapshot a stored row can give (sealed or opened, either
\* unlock method, unlockTime present or missing), every clock reading and
\* every user position, present or absent, is handed to both evaluators.
InitEvaluators ==
    /\ PgUnused
    /\ now = 0
    /\ FsUnused /\ AuthUnused /\ DashUnused
    /\ \E id \in Ids, d \in FormData, opened \in BOOLEAN,
          l \in UserLocs \cup {NoLocation}, at \in 0..MaxTime :
          LET row == NewRow("u1", NULL, d, 0)
          IN  probe = TimeProbe(
                  mapRowToCapsule(id, IF opened THEN SetOpened(row, 0) ELSE row),
                  l, at)

SpecEvaluators == InitEvaluators /\ [][NextTimeLeft]_vars

\* ------------------------------------------------ reading another's capsule
\* One sealed capsule of u1 is stored; both users read it, ask for its status
\* and try to open it while the clock advances.
NextRead ==
    \/ Tick
    \/ \E c \in Clients : SendGet(c)
    \/ \E c \in Clients : SendCheck(c)
    \/ \E c \in Clients : SendOpen(c)
    \/ \E c \in Clients : ApiGet(c)
    \/ \E c \in Clients : ApiCheckStatus(c)
    \/ \E c \in Clients : ApiOpen(c)

SpecRead == InitEval /\ [][NextRead]_vars

\* ------------------------------------------------------------ the dashboard
\* The Capsule objects a listing can return for id: any stored row of u1,
\* sealed or opened.
ListedCapsules(id) ==
    {mapRowToCapsule(id, IF opened THEN SetOpened(NewRow("u1", NULL, d, 0), 0)
                         ELSE NewRow("u1", NULL, d, 0)) :
        d \in FormData, opened \in BOOLEAN}

\* c.status === 'opened'
IsUnlocked(c) == c.status = "opened"

\* c.status === 'sealed' && c.unlockMethod === 'time' && c.unlockTime &&
\* new Date(c.unlockTime) > new Date()
IsLocked(c, nowMs) ==
    /\ c.status = "sealed"
    /\ c.unlockMethod = "time"
    /\ NotNull(c.unlockTime)
    /\ NewDate(c.unlockTime) > nowMs

\* The third filter of categorizedCapsules
IsUnlockable(c, nowMs) ==
    /\ c.status = "sealed"
    /\ \/ c.unlockMethod = "immediate"
       \/ /\ c.unlockMethod = "time"
          /\ NotNull(c.unlockTime)
          /\ NewDate(c.unlockTime) <= nowMs

\* fetchCapsules: setCapsules(userCapsules) starts a render
DashFetchCapsules ==
    /\ dash.pc = "loading"
    /\ \E ids \in SUBSET ListIds :
          /\ ids # {}
          /\ \E list \in [ids -> UNION {ListedCapsules(id) : id \in ids}] :
                /\ \A id \in ids : list[id].id = id
                /\ dash' = [dash EXCEPT !.pc = "unlocked", !.capsules = list]
    /\ UNCHANGED <<capsules, now, reqs, openLog, inserted, docs, pages, auth, probe>>

\* The three filters of a render run one after the other; each reads the
\* clock for itself.
DashFilterUnlocked ==
    /\ dash.pc = "unlocked"
    /\ dash' = [dash EXCEPT !.pc = "locked",
           !.unlocked = {id \in DOMAIN dash.capsules : IsUnlocked(dash.capsules[id])},
           !.locked = {},
           !.unlockable = {}]
    /\ UNCHANGED <<capsules, now, reqs, openLog, inserted, docs, pages, auth, probe>>

DashFilterLocked ==
    /\ dash.pc = "locked"
    /\ dash' = [dash EXCEPT !.pc = "unlockable",
           !.locked = {id \in DOMAIN dash.capsules : IsLocked(dash.capsules[id], now)}]
    /\ UNCHANGED <<capsules, now, reqs, openLog, inserted, docs, pages, auth, probe>>

DashFilterUnlockable ==
    /\ dash.pc = "unlockable"
    /\ dash' = [dash EXCEPT !.pc = "rendered",
           !.unlockable = {id \in DOMAIN dash.capsules :
                              IsUnlockable(dash.capsules[id], now)}]
    /\ UNCHANGED <<capsules, now, reqs, openLog, inserted, docs, pages, auth, probe>>

\* Any change of the component's state or context renders it again.
DashRerender ==
    /\ dash.pc = "rendered"
    /\ dash' = [dash EXCEPT !.pc = "unlocked"]
    /\ UNCHANGED <<capsules, now, reqs, openLog, inserted, docs, pages, auth, probe>>

InitDash ==
    /\ PgUnused
    /\ now = 0
    /\ FsUnused /\ AuthUnused /\ ProbeUnused
    /\ dash = LoadingDashboard

NextDash ==
    \/ Tick
    \/ DashFetchCapsules
    \/ DashFilterUnlocked
    \/ DashFilterLocked
    \/ DashFilterUnlockable
    \/ DashRerender

SpecDash == InitDash /\ [][NextDash]_vars

\* ------------------------------------------------------------- authClient
\* The module state of authClient (currentUser), the two localStorage
\* entries, the user the AuthProvider's listener was last given, and the calls
\* whose fetch is in flight.  signedOut and notified are records of the past:
\* signedOut holds from the completion of a signOut until the next signIn or
\* signUp is started, notified tells whether the listeners were given a user
\* since the last completed signOut.
NoCall == [op |-> "none", user |-> "none"]

SignedOutClient ==
    [pc |-> "ready", currentUser |-> NULL, timecapsule_user |-> NULL, uid |-> NULL,
     contextUser |-> NULL, calls |-> [c \in Clients |-> NoCall],
     signedOut |-> FALSE, notified |-> FALSE]

\* notifyListeners() with the AuthProvider's callback subscribed: setUser(user)
\* and the 'uid' entry set or removed.
NotifyListeners(a) ==
    [a EXCEPT !.contextUser = a.currentUser,
              !.uid = a.currentUser,
              !.notified = a.notified \/ NotNull(a.currentUser)]

\* signIn / signUp after a response that is ok
SignedIn(a, user) ==
    [NotifyListeners([a EXCEPT !.currentUser = <<user>>])
        EXCEPT !.timecapsule_user = <<user>>, !.uid = <<user>>]

\* signOut after its fetch resolved
SignedOut(a) ==
    [NotifyListeners([a EXCEPT !.currentUser = NULL])
        EXCEPT !.timecapsule_user = NULL, !.uid = NULL,
               !.signedOut = TRUE, !.notified = FALSE]

\* authClient.signIn(email, password) / signUp(email, password) is called and
\* awaits its fetch.
StartSignIn(c) ==
    /\ auth.pc = "ready"
    /\ auth.calls[c] = NoCall
    /\ \E op \in {"signIn", "signUp"}, u \in Users :
          auth' = [auth EXCEPT !.calls[c] = [op |-> op, user |-> u],
                               !.signedOut = FALSE]
    /\ UNCHANGED <<capsules, now, reqs, openLog, inserted, docs, pages, probe, dash>>

\* authClient.signOut() is called and awaits its fetch.
StartSignOut(c) ==
    /\ auth.pc = "ready"
    /\ auth.calls[c] = NoCall
    /\ auth' = [auth EXCEPT !.calls[c] = [op |-> "signOut", user |-> "none"]]
    /\ UNCHANGED <<capsules, now, reqs, openLog, inserted, docs, pages, probe, dash>>

\* The response to a signIn or signUp arrives: not ok, the call throws; ok,
\* the user is made current, announced and stored.
SignInResponds(c) ==
    /\ auth.pc = "ready"
    /\ auth.calls[c].op \in {"signIn", "signUp"}
    /\ \E ok \in BOOLEAN :
          auth' = [(IF ok THEN SignedIn(auth, auth.calls[c].user) ELSE auth)
                      EXCEPT !.calls[c] = NoCall]
    /\ UNCHANGED <<capsules, now, reqs, openLog, inserted, docs, pages, probe, dash>>

\* The fetch of a signOut settles: rejected, the call throws; resolved,
\* whatever the response, the client state is cleared.
SignOutResponds(c) ==
    /\ auth.pc = "ready"
    /\ auth.calls[c].op = "signOut"
    /\ \E resolved \in BOOLEAN :
          auth' = [(IF resolved THEN SignedOut(auth) ELSE auth)
                      EXCEPT !.calls[c] = NoCall]
    /\ UNCHANGED <<capsules, now, reqs, openLog, inserted, docs, pages, probe, dash>>

\* authClient.getCurrentUser(): a stored user becomes current when none is.
GetCurrentUser ==
    /\ auth.pc = "ready"
    /\ auth' = IF auth.currentUser = NULL /\ NotNull(auth.timecapsule_user)
               THEN NotifyListeners([auth EXCEPT !.currentUser = auth.timecapsule_user])
               ELSE auth
    /\ UNCHANGED <<capsules, now, reqs, openLog, inserted, docs, pages, probe, dash>>

InitAuth ==
    /\ PgUnused
    /\ now = 0
    /\ FsUnused /\ ProbeUnused /\ DashUnused
    /\ auth = SignedOutClient

NextAuth ==
    \/ \E c \in Clients : StartSignIn(c)
    \/ \E c \in Clients : StartSignOut(c)
    \/ \E c \in Clients : SignInResponds(c)
    \/ \E c \in Clients : SignOutResponds(c)
    \/ GetCurrentUser

SpecAuth == InitAuth /\ [][NextAuth]_vars

\* ================================================================ claims
Handled(c) == reqs[c].pc = "pending" /\ reqs'[c].pc = "done"
Stored(id) == id \in DOMAIN capsules
Done(c, ops) == reqs[c].pc = "done" /\ reqs[c].op \in ops

\* C1: of the entitled open requests handled for a stored capsule, however
\* they interleave, exactly one was told that the transition occurred and
\* every other one that it did not; the capsule is then opened, and its
\* opened_at is the one the transition set (no later open request changed it).
C1_ExactlyOneTransition ==
    \A id \in DOMAIN capsules :
        LET row == capsules[id]
            log == openLog[id]
        IN  /\ Logged(id) = 0 => row.status = "sealed" /\ log.at = NULL
            /\ Logged(id) >= 1 => /\ log.ok = 1
                                  /\ row.status = "opened"
                                  /\ NotNull(row.opened_at)
                                  /\ row.opened_at = log.at

\* C1 witness: two open requests of the owner for the same capsule have been
\* answered, one with success and one with 'not found or already opened', and
\* the clock has moved on since the transition.
C1_Witness ==
    \E c1, c2 \in Clients :
        /\ c1 # c2
        /\ Done(c1, {"open"}) /\ Done(c2, {"open"})
        /\ reqs[c1].id = reqs[c2].id /\ Stored(reqs[c1].id)
        /\ reqs[c1].userId = reqs[c2].userId
        /\ reqs[c1].res.code = "200" /\ reqs[c2].res.code = "404"
        /\ openLog[reqs[c1].id].ok = 1 /\ openLog[reqs[c1].id].refused >= 1
        /\ capsules[reqs[c1].id].opened_at # <<now>>

\* C2: no step takes a stored capsule from opened to sealed; the only change
\* of status a step makes is sealed -> opened.
C2_StatusMonotonic ==
    [][\A id \in DOMAIN capsules \cap DOMAIN capsules' :
          capsules[id].status # capsules'[id].status
              => capsules[id].status = "sealed" /\ capsules'[id].status = "opened"]_vars

\* C2 witness: an opened capsule on which a later create and a later open were
\* attempted.
C2_Witness ==
    \E c1, c2 \in Clients :
        /\ Done(c1, {"create"}) /\ reqs[c1].res.code = "500"
        /\ Done(c2, {"open"}) /\ reqs[c2].res.code = "404"
        /\ reqs[c1].id = reqs[c2].id /\ Stored(reqs[c1].id)
        /\ capsules[reqs[c1].id].status = "opened"
        /\ capsules[reqs[c1].id].user_id = reqs[c2].userId

\* Some evaluator finds the stored capsule openable now, for some position of
\* the user or for none.
CanOpenNow(id) ==
    \E l \in UserLocs \cup {NoLocation} :
        \/ ApiStatusResponse(mapRowToCapsule(id, capsules[id]), l, now).canOpen
        \/ checkCapsuleStatus(mapRowToCapsule(id, capsules[id]), l, now).canOpen

\* C3: a capsule goes from sealed to opened only in a step in which its unlock
\* condition holds (an evaluator would return canOpen = true for it).
C3_OpensOnlyWhenUnlockable ==
    [][\A id \in DOMAIN capsules \cap DOMAIN capsules' :
          capsules[id].status = "sealed" /\ capsules'[id].status = "opened"
              => CanOpenNow(id)]_vars

\* C4: for every stored capsule, opened_at is non-null iff status = opened.
C4_OpenedAtIffOpened ==
    \A id \in DOMAIN capsules :
        NotNull(capsules[id].opened_at) <=> capsules[id].status = "opened"

\* C4 witness: an open request has transitioned a capsule.
C4_Witness ==
    \E c \in Clients :
        /\ Done(c, {"open"}) /\ reqs[c].res.code = "200"
        /\ Stored(reqs[c].id)
        /\ capsules[reqs[c].id].status = "opened"
        /\ NotNull(capsules[reqs[c].id].opened_at)

\* C5 as stated: an open or delete request carrying a userId other than the
\* owner's leaves the table unchanged and reports failure, and a capsule is
\* transitioned or removed only in the handling of a request that carries its
\* owner's userId.
C5_OnlyOwnerRequests ==
    [][/\ \A c \in Clients :
            /\ Handled(c)
            /\ reqs[c].op \in {"open", "delete"}
            /\ Stored(reqs[c].id)
            /\ capsules[reqs[c].id].user_id # reqs[c].userId
            => capsules' = capsules /\ reqs'[c].res.code = "404"
       /\ \A id \in DOMAIN capsules :
            (id \notin DOMAIN capsules' \/ capsules'[id] # capsules[id])
            => \E c \in Clients :
                  /\ Handled(c)
                  /\ reqs[c].id = id
                  /\ reqs[c].userId = capsules[id].user_id]_vars

\* C5 amended: an open or delete request to the API carrying a userId other
\* than the owner's leaves the table unchanged and reports failure, and every
\* step that transitions or removes a capsule is either the handling of an API
\* request carrying the owner's userId or a call of the service's openCapsule
\* or deleteCapsule, which take no userId.
C5_OnlyOwnerApiRequests ==
    [][/\ \A c \in Clients :
            /\ Handled(c)
            /\ reqs[c].op \in {"open", "delete"}
            /\ Stored(reqs[c].id)
            /\ capsules[reqs[c].id].user_id # reqs[c].userId
            => capsules' = capsules /\ reqs'[c].res.code = "404"
       /\ \A id \in DOMAIN capsules :
            (id \notin DOMAIN capsules' \/ capsules'[id] # capsules[id])
            => \E c \in Clients :
                  /\ Handled(c)
                  /\ reqs[c].id = id
                  /\ \/ reqs[c].op \in {"open", "delete"}
                        /\ reqs[c].userId = capsules[id].user_id
                     \/ reqs[c].op \in {"svcOpen", "svcDelete"}]_vars

\* C5 witness: a sealed capsule has survived a delete request and an open
\* request of a user who is not its owner, both answered 404.
C5_Witness ==
    \E c1, c2 \in Clients :
        /\ Done(c1, {"delete"}) /\ Done(c2, {"open"})
        /\ reqs[c1].res.code = "404" /\ reqs[c2].res.code = "404"
        /\ reqs[c1].id = reqs[c2].id /\ Stored(reqs[c1].id)
        /\ capsules[reqs[c1].id].user_id # reqs[c1].userId
        /\ capsules[reqs[c1].id].user_id # reqs[c2].userId
        /\ capsules[reqs[c1].id].status = "sealed"

\* An evaluator has answered client c's request with a decision.
Evaluated(c) ==
    /\ Done(c, {"check", "svcCheck"})
    /\ reqs[c].res.code \in {"200", "value"}

SealedWith(c, method) ==
    /\ reqs[c].res.capsule.status = "sealed"
    /\ reqs[c].res.capsule.unlockMethod = method

\* C6: for a sealed capsule with unlockMethod = time and unlockTime = T, an
\* evaluator returns canOpen = true iff the clock it read shows T or later.
C6_TimeUnlockAtT ==
    \A c \in Clients :
        /\ Evaluated(c)
        /\ SealedWith(c, "time")
        /\ NotNull(reqs[c].res.capsule.unlockTime)
        => (reqs[c].res.canOpen
              <=> reqs[c].res.at >= NewDate(reqs[c].res.capsule.unlockTime))

\* C6 witness: the same sealed time capsule was evaluated one millisecond
\* before T with canOpen = false and at exactly T with canOpen = true.
C6_Witness ==
    \E c1, c2 \in Clients :
        /\ Evaluated(c1) /\ Evaluated(c2)
        /\ SealedWith(c1, "time") /\ SealedWith(c2, "time")
        /\ reqs[c1].res.capsule = reqs[c2].res.capsule
        /\ NotNull(reqs[c1].res.capsule.unlockTime)
        /\ reqs[c1].res.at = NewDate(reqs[c1].res.capsule.unlockTime) - 1
        /\ reqs[c2].res.at = NewDate(reqs[c2].res.capsule.unlockTime)
        /\ ~reqs[c1].res.canOpen
        /\ reqs[c2].res.canOpen

\* C7: for a sealed capsule with unlockMethod = location and a supplied user
\* position, an evaluator returns canOpen = true iff the position is at most
\* 100 metres from the capsule's location.
C7_LocationUnlockWithin100m ==
    \A c \in Clients :
        /\ Evaluated(c)
        /\ SealedWith(c, "location")
        /\ reqs[c].loc # NoLocation
        => (reqs[c].res.canOpen
              <=> Haversine(reqs[c].loc.latitude, reqs[c].loc.longitude,
                            reqs[c].res.capsule.location.latitude,
                            reqs[c].res.capsule.location.longitude) <= 100)

\* C8: for a sealed capsule with unlockMethod = location and no user position,
\* an evaluator returns canOpen = false with the message that asks the user to
\* enable location services.
C8_NoPositionPrompts ==
    \A c \in Clients :
        /\ Evaluated(c)
        /\ SealedWith(c, "location")
        /\ reqs[c].loc = NoLocation
        => /\ ~reqs[c].res.canOpen
           /\ reqs[c].res.message =
                 Msg("Please enable location services to open this capsule.")

\* C9: for a capsule with status = opened an evaluator returns canOpen = true,
\* whatever the unlock method, the unlock time, the clock and the position.
C9_OpenedAlwaysCanOpen ==
    \A c \in Clients :
        Evaluated(c) /\ reqs[c].res.capsule.status = "opened"
        => reqs[c].res.canOpen

\* C9 witness: an opened time capsule was evaluated before its unlockTime,
\* with canOpen = true.
C9_Witness ==
    \E c \in Clients :
        /\ Evaluated(c)
        /\ reqs[c].res.capsule.status = "opened"
        /\ reqs[c].res.capsule.unlockMethod = "time"
        /\ NotNull(reqs[c].res.capsule.unlockTime)
        /\ reqs[c].res.at < NewDate(reqs[c].res.capsule.unlockTime)
        /\ reqs[c].res.canOpen

\* C10: if an evaluator returned canOpen = true for a time capsule at one
\* time, the same evaluator returns canOpen = true for it at every later time,
\* whether or not the capsule was opened in between.
C10_MonotonicInTime ==
    \A c1, c2 \in Clients :
        /\ Evaluated(c1) /\ Evaluated(c2)
        /\ reqs[c1].op = reqs[c2].op
        /\ reqs[c1].id = reqs[c2].id
        /\ reqs[c1].res.capsule.unlockMethod = "time"
        /\ reqs[c1].res.at < reqs[c2].res.at
        /\ reqs[c1].res.canOpen
        => reqs[c2].res.canOpen

\* C10 witness: a time capsule was evaluated with canOpen = true while sealed
\* and evaluated again, with canOpen = true, at a later time.
C10_Witness ==
    \E c1, c2 \in Clients :
        /\ Evaluated(c1) /\ Evaluated(c2)
        /\ reqs[c1].op = reqs[c2].op
        /\ reqs[c1].id = reqs[c2].id
        /\ SealedWith(c1, "time")
        /\ NotNull(reqs[c1].res.capsule.unlockTime)
        /\ reqs[c1].res.at < reqs[c2].res.at
        /\ reqs[c1].res.canOpen /\ reqs[c2].res.canOpen

\* C11: handling a check-status request, through the API route or through the
\* service, leaves the whole table as it was, whatever decision it returns;
\* a step that changes the table is the handling of an open request.
C11_CheckStatusLeavesStore ==
    [][/\ \A c \in Clients :
              Handled(c) /\ reqs[c].op \in {"check", "svcCheck"}
                  => capsules' = capsules
       /\ capsules' # capsules
              => \E c \in Clients : Handled(c) /\ reqs[c].op = "open"]_vars

\* C11 witness: a check-status request of the owner was answered canOpen =
\* true for a sealed capsule, and the stored capsule is still sealed with no
\* opened_at.
C11_Witness ==
    \E c \in Clients :
        /\ Done(c, {"check"})
        /\ reqs[c].res.code = "200"
        /\ reqs[c].res.canOpen
        /\ reqs[c].res.capsule.status = "sealed"
        /\ Stored(reqs[c].id)
        /\ capsules[reqs[c].id].status = "sealed"
        /\ capsules[reqs[c].id].opened_at = NULL

\* C13: an open request of the owner handled while the stored capsule is
\* already opened gets an answer different from the one given for an id with
\* no row.
C13_AlreadyOpenedIsConflict ==
    [][\A c \in Clients :
          /\ Handled(c) /\ reqs[c].op = "open"
          /\ Stored(reqs[c].id)
          /\ capsules[reqs[c].id].user_id = reqs[c].userId
          /\ capsules[reqs[c].id].status = "opened"
          => reqs'[c].res # NotFoundOrAlreadyOpened]_vars

\* C17: every stored row has an unlock_time exactly when its unlock_method is
\* 'time'.
C17_UnlockTimeIffTime ==
    \A id \in DOMAIN capsules :
        NotNull(capsules[id].unlock_time) <=> capsules[id].unlock_method = "time"

\* C18: a step that changes a row that stays stored is the handling of an open
\* request for it, and the row differs from what it was in status and
\* opened_at only; user_id, title, content, location, unlock_method,
\* unlock_time and created_at are what they were.
C18_OnlyOpenChangesStatusAndOpenedAt ==
    [][\A id \in DOMAIN capsules \cap DOMAIN capsules' :
          capsules'[id] # capsules[id]
              => /\ \E c \in Clients :
                        Handled(c) /\ reqs[c].op \in OpenOps /\ reqs[c].id = id
                 /\ capsules'[id] = [capsules[id] EXCEPT
                                        !.status = capsules'[id].status,
                                        !.opened_at = capsules'[id].opened_at]]_vars

\* C18 witness: a capsule created at an earlier time has been opened, and a
\* delete request of another user and a later create request for its id have
\* been refused.
C18_Witness ==
    \E id \in DOMAIN capsules :
        /\ capsules[id].status = "opened"
        /\ capsules[id].created_at < Val(capsules[id].opened_at)
        /\ \E c \in Clients :
              /\ Done(c, {"delete", "create"})
              /\ reqs[c].id = id
              /\ reqs[c].res.code \in {"404", "500"}

\* How a caller reads an answer: the HTTP status of the API route, or the
\* value the service function returned or the error it threw.
Reports(res) ==
    CASE res.code \in {"200", "201", "true", "value"} -> "success"
      [] res.code \in {"404", "null", "false"} -> "not found"
      [] res.code = "400" -> "validation failure"
      [] res.code = "403" -> "forbidden"
      [] res.code \in {"500", "throws"} -> "store failure"

\* A step in which a get, open or delete of c runs against the table.
LookupStep(c) ==
    \/ ApiGet(c) \/ SvcGetCapsuleById(c)
    \/ ApiOpen(c) \/ SvcOpenCapsule(c)
    \/ ApiDelete(c) \/ SvcDeleteCapsule(c)

\* C12: a get, open or delete that runs for an id with no stored row, through
\* the API route or the service, leaves the table unchanged and is answered
\* 'not found', never success; a request without a valid id and a request that
\* met an unreachable database are answered differently from that.
C12_NotFoundForMissingId ==
    [][\A c \in Clients :
          /\ Handled(c) /\ reqs[c].id # InvalidId /\ ~Stored(reqs[c].id)
             /\ LookupStep(c)
                => /\ capsules' = capsules
                   /\ Reports(reqs'[c].res) = "not found"
          /\ Handled(c) /\ reqs[c].id = InvalidId
                => Reports(reqs'[c].res) = "validation failure"
          /\ Handled(c) /\ QueryRejects(c)
                => Reports(reqs'[c].res) = "store failure"]_vars

\* C12 witness: no capsule is stored, a get of the id was answered 404
\* 'Capsule not found' and a delete of it 404, while the table stayed empty.
C12_Witness ==
    /\ capsules = <<>>
    /\ \E c1, c2 \in Clients :
          /\ Done(c1, {"get"}) /\ reqs[c1].res = CapsuleNotFound
          /\ Done(c2, {"delete"}) /\ reqs[c2].res.code = "404"
          /\ reqs[c1].id = reqs[c2].id

\* The creation that left the row stored under id: the last INSERT of that id.
LastCreation(id) ==
    LET n == CHOOSE i \in 1..Len(inserted) :
                 /\ inserted[i].id = id
                 /\ \A j \in (i + 1)..Len(inserted) : inserted[j].id # id
    IN  inserted[n]

\* C15: a get answered with a capsule returns the userId, title, content,
\* location, unlockMethod and unlockTime that the create request which stored
\* it carried, a media reference exactly if that request carried a file, status
\* sealed and openedAt null (no open request exists in this specification).
C15_CreateGetRoundTrip ==
    [][\A c \in Clients :
          Handled(c) /\ reqs[c].op = "get" /\ reqs'[c].res.code = "200"
          => LET capsule == reqs'[c].res.capsule
                 made == LastCreation(reqs[c].id)
             IN  /\ capsule.userId = made.userId
                 /\ capsule.title = made.data.title
                 /\ capsule.content = made.data.content
                 /\ capsule.location.latitude = made.data.location.latitude
                 /\ capsule.location.longitude = made.data.location.longitude
                 /\ capsule.unlockMethod = made.data.unlockMethod
                 /\ capsule.unlockTime =
                        IF NotNull(made.data.unlockTime)
                        THEN toISOString(Val(made.data.unlockTime)) ELSE NULL
                 /\ (capsule.mediaUrls = <<>>) <=> (made.data.mediaFile = NULL)
                 /\ capsule.status = "sealed"
                 /\ capsule.openedAt = NULL]_vars

\* What the create request must satisfy: title and content not empty, the
\* latitude within -90..90, the longitude within -180..180, and an unlockTime
\* when the unlockMethod is time.
ValidData(d) ==
    /\ d.title # "" /\ d.content # ""
    /\ d.location.latitude >= Degrees(-90) /\ d.location.latitude <= Degrees(90)
    /\ d.location.longitude >= Degrees(-180) /\ d.location.longitude <= Degrees(180)
    /\ d.unlockMethod = "time" => NotNull(d.unlockTime)

\* C16: a create request whose data is not valid is answered with a validation
\* failure and leaves the table as it was.
C16_CreateRejectsInvalid ==
    [][\A c \in Clients :
          Handled(c) /\ reqs[c].op = "create" /\ ~ValidData(reqs[c].data)
          => /\ capsules' = capsules
             /\ Reports(reqs'[c].res) = "validation failure"]_vars

\* C19: no two INSERTs that succeeded, at any two times, were given the same
\* id, whether or not the earlier capsule has been deleted since.
C19_IdsNeverReused ==
    \A i, j \in 1..Len(inserted) :
        i # j => inserted[i].id # inserted[j].id

\* The place of the row stored under id in the order of insertion.
InsertedAt(id) ==
    CHOOSE i \in 1..Len(inserted) :
        /\ inserted[i].id = id
        /\ \A j \in (i + 1)..Len(inserted) : inserted[j].id # id

\* C14: a list answered for userId holds each stored capsule of userId once
\* and no other capsule, later createdAt first, and capsules of equal
\* createdAt in the order they were inserted.
C14_ListExactOrdered ==
    [][\A c \in Clients :
          Handled(c) /\ reqs[c].op = "list"
          => LET list == reqs'[c].res.capsules
                 owned == {id \in DOMAIN capsules :
                              capsules[id].user_id = reqs[c].userId}
             IN  /\ {list[i].id : i \in DOMAIN list} = owned
                 /\ Len(list) = Cardinality(owned)
                 /\ \A i \in DOMAIN list :
                       list[i] = mapRowToCapsule(list[i].id, capsules[list[i].id])
                 /\ \A i, j \in DOMAIN list :
                       i < j =>
                         \/ NewDate(list[i].createdAt) > NewDate(list[j].createdAt)
                         \/ /\ list[i].createdAt = list[j].createdAt
                            /\ InsertedAt(list[i].id) < InsertedAt(list[j].id)]_vars

\* C20: every evaluation of a stored capsule, by the API route for its owner
\* or by the service, ends with a decision: a boolean canOpen and a message;
\* none ends in the catch block or with a thrown error.
C20_EvaluatorAlwaysDecides ==
    \A c \in Clients :
        /\ Done(c, {"check", "svcCheck"})
        /\ Stored(reqs[c].id)
        /\ reqs[c].op = "check" => capsules[reqs[c].id].user_id = reqs[c].userId
        => /\ reqs[c].res.code = IF reqs[c].op = "check" THEN "200" ELSE "value"
           /\ reqs[c].res.canOpen \in BOOLEAN
           /\ "text" \in DOMAIN reqs[c].res.message

\* C20 witness: the API route and the service have both evaluated a sealed
\* location capsule for a request without a position, and a decision came back
\* from each.
C20_Witness ==
    \E c1, c2 \in Clients :
        /\ Done(c1, {"check"}) /\ Done(c2, {"svcCheck"})
        /\ reqs[c1].res.code = "200" /\ reqs[c2].res.code = "value"
        /\ SealedWith(c1, "location") /\ SealedWith(c2, "location")
        /\ reqs[c1].loc = NoLocation /\ reqs[c2].loc = NoLocation
        /\ ~reqs[c1].res.canOpen /\ ~reqs[c2].res.canOpen

\* The evaluation the page of c made last found the stored unlock date passed
\* and the position it was given within the default threshold of the stored
\* capsule location.
DateAndPlace(c) ==
    LET page == pages[c]
        stored == docs[Val(page.capsule).id]
    IN  /\ NotNull(page.checkedAt)
        /\ Val(page.checkedAt) >= stored.unlockDate
        /\ Haversine(page.userLocation.latitude, page.userLocation.longitude,
                     stored.location.latitude, stored.location.longitude)
               <= DefaultThreshold

ShowsUnlockable(c) ==
    pages[c].pc # "none" /\ (pages[c].capsuleStatus = "unlockable" \/ pages[c].pc = "opening")

\* C21: in the unlock-date-plus-location variant a page shows 'unlockable', or
\* is about to mark the capsule opened, only after an evaluation made when the
\* unlock date had passed, for a position within the threshold; and a step
\* that marks the stored capsule opened is the openCapsule of such a page.
C21_UnlockableNeedsDateAndPlace ==
    [][/\ \A c \in Clients : ShowsUnlockable(c)' => DateAndPlace(c)'
       /\ docs' # docs
             => \E c \in Clients :
                   /\ pages[c].pc = "opening" /\ DateAndPlace(c)
                   /\ pages'[c].opens = pages[c].opens + 1]_vars

\* C21 witness: a capsule whose unlock date is 1 has been marked opened by a
\* page that evaluated it at or after time 1 from 50 m away.
C21_Witness ==
    \E c \in Clients :
        /\ pages[c].pc = "ready" /\ pages[c].opens = 1
        /\ docs[Val(pages[c].capsule).id].isOpened
        /\ docs[Val(pages[c].capsule).id].unlockDate = 1
        /\ DateAndPlace(c)

\* C26: in every persistence variant open is a conditional update on the
\* pre-transition state: a call of openCapsule that returns normally found
\* the document still sealed, so of the pages racing to open one capsule at
\* most one observes success.  Stated for the Firestore/Supabase variant,
\* whose openCapsule the view page awaits.
C26_OpenIsConditional ==
    [][\A c \in Clients :
          (pages[c].pc = "opening" /\ pages'[c].opens = pages[c].opens + 1)
              => ~docs[Val(pages[c].capsule).id].isOpened]_vars

\* C22: isNear(a, b, r) is true if and only if the distance between a and b
\* is at most r, for every r >= 0, in the geolocation helper and in the API
\* route's helper; a distance of exactly r is near.
C22_NearIffWithinRadius ==
    (probe.pc = "geo" /\ NotNull(probe.distance)) =>
        LET within == Val(probe.distance)[2] <= probe.r
        IN  /\ IsNum(Val(probe.distance))
            /\ NotNull(probe.near) => (Val(probe.near) <=> within)
            /\ NotNull(probe.apiNear) => (Val(probe.apiNear) <=> within)

\* Both helpers answered near for two points exactly r > 0 apart.
C22_Witness ==
    /\ probe.pc = "geo"
    /\ probe.r > 0
    /\ probe.distance = <<Num(probe.r)>>
    /\ probe.near = <<TRUE>>
    /\ probe.apiNear = <<TRUE>>

C25_OneRadiusEverywhere ==
    (/\ probe.pc = "geo"
     /\ NotNull(probe.distance)
     /\ NotNull(probe.apiHandler) /\ NotNull(probe.service) /\ NotNull(probe.firestore)) =>
        LET within == Val(probe.distance)[2] <= 100
        IN  /\ Val(probe.apiHandler) <=> within
            /\ Val(probe.service) <=> within
            /\ Val(probe.firestore) <=> within

\* Whole days and hours of ms milliseconds when at least one full day
\* remains, otherwise whole hours and minutes, each the largest count that
\* fits.
FloorTimeLeft(timeLeft, ms) ==
    IF ms >= DayMs
    THEN /\ timeLeft[2] = "days and" /\ timeLeft[4] = "hours"
         /\ timeLeft[1] >= 1
         /\ timeLeft[3] \in 0..23
         /\ timeLeft[1] * DayMs + timeLeft[3] * HourMs <= ms
         /\ ms < timeLeft[1] * DayMs + (timeLeft[3] + 1) * HourMs
    ELSE /\ timeLeft[2] = "hours and" /\ timeLeft[4] = "minutes"
         /\ timeLeft[1] \in 0..23
         /\ timeLeft[3] \in 0..59
         /\ timeLeft[1] * HourMs + timeLeft[3] * MinuteMs <= ms
         /\ ms < timeLeft[1] * HourMs + (timeLeft[3] + 1) * MinuteMs

\* C24: for a sealed time capsule evaluated before unlockTime the message
\* states the remaining time with floor division of the millisecond
\* difference: whole days and hours when at least one full day remains,
\* otherwise whole hours and minutes, no component rounded up (1 ms left
\* gives 0 hours and 0 minutes).
C24_TimeLeftIsFloored ==
    probe.pc = "time" =>
        \A res \in {probe.api, probe.service} :
            NotNull(res) =>
                /\ Val(res).canOpen = FALSE
                /\ Val(res).message.text = "This capsule will be unlockable in"
                /\ FloorTimeLeft(Val(res).message.timeLeft, TargetTime - probe.at)
                /\ (TargetTime - probe.at = 1) =>
                       Val(res).message.timeLeft = <<0, "hours and", 0, "minutes">>

\* Both evaluators stated 1 day and 23 hours for a capsule evaluated 1 day,
\* 23 hours, 59 minutes and 1 millisecond before its unlockTime.
C24_Witness ==
    /\ probe.pc = "time"
    /\ TargetTime - probe.at = 2 * DayMs - 59999
    /\ NotNull(probe.api) /\ NotNull(probe.service)
    /\ Val(probe.api).message.timeLeft = <<1, "days and", 23, "hours">>
    /\ Val(probe.service).message.timeLeft = <<1, "days and", 23, "hours">>

\* C27: the check-status logic inlined in the API route and the PostgreSQL
\* service's checkCapsuleStatus are equivalent: for every capsule snapshot,
\* every current time and every user position (present or absent) they return
\* the same canOpen and the same message.
C27_EvaluatorsAgree ==
    (probe.pc = "time" /\ NotNull(probe.api) /\ NotNull(probe.service)) =>
        /\ Val(probe.api).canOpen = Val(probe.service).canOpen
        /\ Val(probe.api).message = Val(probe.service).message

C29_CategoriesPartition ==
    dash.pc = "rendered" =>
        \A id \in DOMAIN dash.capsules :
            Cardinality({cat \in {"unlocked", "locked", "unlockable"} :
                            id \in dash[cat]}) = 1

\* C30: once authClient.signOut() has completed and no signIn or signUp has
\* been started since, the current user is null, the listeners have not been
\* given a user, and the 'timecapsule_user' and 'uid' storage entries are
\* absent, even when a signIn or signUp started before the signOut gets its
\* response after it.
C30_SignOutIsFinal ==
    (auth.pc = "ready" /\ auth.signedOut) =>
        /\ auth.currentUser = NULL
        /\ ~auth.notified
        /\ auth.contextUser = NULL
        /\ auth.timecapsule_user = NULL
        /\ auth.uid = NULL

====
